---- MODULE Spec2Model ----
(***************************************************************************)
(* Employee scheduling: the business layer (assignShift, toMinutes,        *)
(* getShiftMinutes, addEmployee), the file-backed persistence layer of     *)
(* Assignment2, and the web routes, sorted schedule and MongoDB            *)
(* persistence of Assignment3.                                             *)
(*                                                                         *)
(* Strings of the program are sequences of one-character strings, so that  *)
(* length, indexing, slice, trim, padStart, concatenation and the          *)
(* lexicographic comparison of JavaScript are computed, not assumed.       *)
(***************************************************************************)
EXTENDS Integers, Sequences, FiniteSets, TLC

VARIABLES
    employees,     \* employees.json / the employees collection: a sequence of records
    shifts,        \* shifts.json / the shifts collection: a sequence of records
    assignments,   \* assignments.json / the assignments collection: a sequence of records
    config,        \* config.json: the raw maxDailyHours value
    assignments0,  \* history: the assignments store the behaviour started from
    call,          \* the last completed call and its arguments
    result,        \* what that call returned (or the response it sent)
    steps,         \* the persistence / duration steps that call evaluated, in order
    inflight       \* the assignShift calls in flight: each call's position and locals

vars == <<employees, shifts, assignments, config, assignments0, call, result, steps,
          inflight>>

-----------------------------------------------------------------------------
(* Numbers and strings of JavaScript                                       *)

\* NaN as returned by toMinutes / getShiftMinutes; every other value they
\* return is an integer >= 0.
NaN == -1

IsFiniteNum(x) == x # NaN

Digits == {"0", "1", "2", "3", "4", "5", "6", "7", "8", "9"}

DigitVal(c) ==
    CASE c = "0" -> 0 [] c = "1" -> 1 [] c = "2" -> 2 [] c = "3" -> 3
      [] c = "4" -> 4 [] c = "5" -> 5 [] c = "6" -> 6 [] c = "7" -> 7
      [] c = "8" -> 8 [] c = "9" -> 9

DigitChar(n) ==
    CASE n = 0 -> "0" [] n = 1 -> "1" [] n = 2 -> "2" [] n = 3 -> "3"
      [] n = 4 -> "4" [] n = 5 -> "5" [] n = 6 -> "6" [] n = 7 -> "7"
      [] n = 8 -> "8" [] n = 9 -> "9"

\* The UTF-16 code unit of the characters the model uses (string comparison).
Code(c) ==
    CASE c = " " -> 32 [] c = "+" -> 43 [] c = "-" -> 45 [] c = "." -> 46
      [] c \in Digits -> 48 + DigitVal(c)
      [] c = ":" -> 58 [] c = "E" -> 69 [] c = "S" -> 83 [] c = "X" -> 88
      [] c = "a" -> 97 [] c = "b" -> 98

\* s.slice(from, to) with 0-based bounds, 0 <= from <= to.
Slice(s, from, to) ==
    LET hi == IF to > Len(s) THEN Len(s) ELSE to
    IN  IF from >= hi THEN <<>> ELSE SubSeq(s, from + 1, hi)

RECURSIVE TrimStart(_)
TrimStart(s) ==
    IF s # <<>> /\ Head(s) = " " THEN TrimStart(Tail(s)) ELSE s

RECURSIVE TrimEnd(_)
TrimEnd(s) ==
    IF s # <<>> /\ s[Len(s)] = " " THEN TrimEnd(SubSeq(s, 1, Len(s) - 1)) ELSE s

\* String.prototype.trim (the only white space of the model is the space).
Trim(s) == TrimEnd(TrimStart(s))

AllDigits(s) == \A i \in 1..Len(s) : s[i] \in Digits

RECURSIVE DecimalValue(_)
DecimalValue(s) ==
    IF s = <<>> THEN 0
    ELSE 10 * DecimalValue(SubSeq(s, 1, Len(s) - 1)) + DigitVal(s[Len(s)])

\* The position of the first "." of s, or 0.
DotAt(s) ==
    IF \E i \in 1..Len(s) : s[i] = "."
    THEN CHOOSE i \in 1..Len(s) : s[i] = "." /\ \A j \in 1..(i - 1) : s[j] # "."
    ELSE 0

\* The digits before and after the first "." of s.
IntPart(s) ==
    LET d == DotAt(s) IN IF d = 0 THEN s ELSE SubSeq(s, 1, d - 1)

FracPart(s) ==
    LET d == DotAt(s) IN IF d = 0 THEN <<>> ELSE SubSeq(s, d + 1, Len(s))

\* The value of the literal with integer digits ip and fraction digits fp.
\* kind "int": the integer val; "frac": a finite non-integer whose integer
\* part is val; "nan": NaN.
UnsignedValue(ip, fp) ==
    IF ~(AllDigits(ip) /\ AllDigits(fp)) \/ (ip = <<>> /\ fp = <<>>)
    THEN [kind |-> "nan", val |-> 0]
    ELSE IF \A i \in 1..Len(fp) : fp[i] = "0"
    THEN [kind |-> "int", val |-> DecimalValue(ip)]
    ELSE [kind |-> "frac", val |-> DecimalValue(ip)]

\* An unsigned decimal literal: digits, digits ".", "." digits, digits "." digits.
UnsignedNumber(s) == UnsignedValue(IntPart(s), FracPart(s))

\* The number u, negated when negative holds.
Signed(negative, u) ==
    IF ~negative THEN u
    ELSE [kind |-> u.kind, val |-> IF u.kind = "frac" THEN 0 - u.val - 1 ELSE 0 - u.val]

\* Number() of a string t without surrounding white space.
TrimmedToNumber(t) ==
    IF t = <<>> THEN [kind |-> "int", val |-> 0]
    ELSE Signed(Head(t) = "-",
                UnsignedNumber(IF Head(t) \in {"+", "-"} THEN Tail(t) ELSE t))

\* Number(text) for a string of the model's alphabet (no exponent, radix
\* prefix or "Infinity"): white space is trimmed, the empty string is 0, one
\* sign is allowed.
StringToNumber(s) == TrimmedToNumber(Trim(s))

-----------------------------------------------------------------------------
(* Time utility                                                            *)

\* The checks of toMinutes on the parsed hour and minute, and its result.
minutesOfDay(hour, minute) ==
    IF hour.kind # "int" \/ minute.kind # "int" THEN NaN
    ELSE IF hour.val < 0 \/ hour.val > 23 \/ minute.val < 0 \/ minute.val > 59
    THEN NaN
    ELSE hour.val * 60 + minute.val

toMinutes(timeText) ==
    IF Len(timeText) # 5 THEN NaN
    ELSE IF timeText[3] # ":" THEN NaN
    ELSE minutesOfDay(StringToNumber(Slice(timeText, 0, 2)),
                      StringToNumber(Slice(timeText, 3, 5)))

\* getShiftMinutes from start = toMinutes(startTime), end = toMinutes(endTime),
\* with "<=" in the overnight test.
minutesBetweenInclusive(start, end) ==
    IF ~IsFiniteNum(start) \/ ~IsFiniteNum(end) THEN NaN
    ELSE LET endAdjusted == IF end <= start THEN end + 24 * 60 ELSE end
         IN  endAdjusted - start

\* getShiftMinutes from start = toMinutes(startTime), end = toMinutes(endTime).
minutesBetween(start, end) ==
    IF ~IsFiniteNum(start) \/ ~IsFiniteNum(end) THEN NaN
    ELSE LET endAdjusted == IF end < start THEN end + 24 * 60 ELSE end
         IN  endAdjusted - start

getShiftMinutes(startTime, endTime) ==
    minutesBetween(toMinutes(startTime), toMinutes(endTime))

-----------------------------------------------------------------------------
(* Persistence (Assignment2, JSON files)                                   *)

\* A lookup that finds nothing returns undefined; one that finds a record r
\* returns <<r>>.
Undefined == <<>>

\* The first index of a loop "for (i = 0; ...) if (test) return list[i]".
First(hits) == CHOOSE i \in hits : \A j \in hits : i <= j

findEmployee(empId) ==
    LET hits == {i \in 1..Len(employees) : employees[i].employeeId = empId}
    IN  IF hits = {} THEN Undefined ELSE <<employees[First(hits)]>>

findShift(shiftId) ==
    LET hits == {i \in 1..Len(shifts) : shifts[i].shiftId = shiftId}
    IN  IF hits = {} THEN Undefined ELSE <<shifts[First(hits)]>>

\* findAssignment with the loop returning after its first iteration.
findAssignmentFirstOnly(empId, shiftId) ==
    IF /\ Len(assignments) > 0
       /\ assignments[1].employeeId = empId
       /\ assignments[1].shiftId = shiftId
    THEN <<assignments[1]>>
    ELSE Undefined

findAssignment(empId, shiftId) ==
    LET hits == {i \in 1..Len(assignments) :
                    /\ assignments[i].employeeId = empId
                    /\ assignments[i].shiftId = shiftId}
    IN  IF hits = {} THEN Undefined ELSE <<assignments[First(hits)]>>

\* addAssignment writing the new record alone, without the content read.
addAssignmentOverwrite(empId, shiftId) ==
    <<[employeeId |-> empId, shiftId |-> shiftId]>>

\* The array addAssignment writes back: the array it parsed from the content
\* read (fileContent), with one record pushed.
pushAssignment(fileContent, empId, shiftId) ==
    Append(fileContent, [employeeId |-> empId, shiftId |-> shiftId])

\* addAssignment with nothing happening between its read and its write.
addAssignment(empId, shiftId) == pushAssignment(assignments, empId, shiftId)

\* The first half of getEmployeeShifts: the shiftIds collected from the
\* assignments file (only membership is used afterwards).
assignedShiftIds(empId) ==
    {assignments[i].shiftId :
        i \in {j \in 1..Len(assignments) : assignments[j].employeeId = empId}}

\* The second half of getEmployeeShifts: the entries of the shifts file
\* whose id is among shiftIds, in file order.
shiftsWithIds(shiftIds) ==
    LET Test(s) == s.shiftId \in shiftIds
    IN  SelectSeq(shifts, Test)

\* getEmployeeShifts with nothing happening between its two reads.
getEmployeeShifts(empId) == shiftsWithIds(assignedShiftIds(empId))

\* The default readSettings applies when maxDailyHours is missing or invalid.
DefaultMaxDailyHours == 8

\* A configured number is the fraction n / d (d a power of two, so that the
\* double holding it, and its product with 60, are exact); kind "nan" is a
\* missing or non-numeric maxDailyHours.
Num(n, d) == [kind |-> "num", n |-> n, d |-> d]
NotANumber == [kind |-> "nan", n |-> 0, d |-> 1]

readSettings ==
    LET value == config
    IN  IF value.kind # "num" \/ value.n <= 0
        THEN [maxDailyHours |-> Num(DefaultMaxDailyHours, 1)]
        ELSE [maxDailyHours |-> value]

getConfig == readSettings

-----------------------------------------------------------------------------
(* Assignment workflow                                                     *)

MsgNoEmployee == "Employee does not exist"
MsgNoShift    == "Shift does not exist"
MsgAssigned   == "Employee already assigned to shift"
MsgConfig     == "Invalid config: maxDailyHours must be a positive number"
MsgFormat     == "Invalid shift time format"
MsgLimit      == "Cannot assign shift: maxDailyHours limit would be exceeded."
MsgOk         == "Ok"

\* Math.floor(maxDailyHours * 60)
maxDailyMinutesOf(maxDailyHours) == (maxDailyHours.n * 60) \div maxDailyHours.d

\* The loop with "=" in place of "+=": the total is the last shift's minutes.
RECURSIVE scheduledLoopLast(_, _, _, _, _)
scheduledLoopLast(scheduled, date, i, total, calls) ==
    IF i > Len(scheduled) THEN [ok |-> TRUE, total |-> total, calls |-> calls]
    ELSE IF scheduled[i].date = date
    THEN LET minutes == getShiftMinutes(scheduled[i].startTime, scheduled[i].endTime)
         IN  IF ~IsFiniteNum(minutes) \/ minutes <= 0
             THEN [ok |-> FALSE, total |-> total, calls |-> calls + 1]
             ELSE scheduledLoopLast(scheduled, date, i + 1, minutes, calls + 1)
    ELSE scheduledLoopLast(scheduled, date, i + 1, total, calls)

\* The loop over the employee's scheduled shifts, from index i on: ok is
\* FALSE when it returned early on a same-date shift with a bad duration;
\* calls counts the getShiftMinutes calls it made.
RECURSIVE scheduledLoop(_, _, _, _, _)
scheduledLoop(scheduled, date, i, total, calls) ==
    IF i > Len(scheduled) THEN [ok |-> TRUE, total |-> total, calls |-> calls]
    ELSE IF scheduled[i].date = date
    THEN LET minutes == getShiftMinutes(scheduled[i].startTime, scheduled[i].endTime)
         IN  IF ~IsFiniteNum(minutes) \/ minutes <= 0
             THEN [ok |-> FALSE, total |-> total, calls |-> calls + 1]
             ELSE scheduledLoop(scheduled, date, i + 1, total + minutes, calls + 1)
    ELSE scheduledLoop(scheduled, date, i + 1, total, calls)

Repeat(x, n) == [i \in 1..n |-> x]

\* The comparison with the daily threshold.
limitExceededStrict(scheduledMinutesForDate, newShiftMinutes, maxDailyMinutes) ==
    scheduledMinutesForDate + newShiftMinutes >= maxDailyMinutes

limitExceeded(scheduledMinutesForDate, newShiftMinutes, maxDailyMinutes) ==
    scheduledMinutesForDate + newShiftMinutes > maxDailyMinutes

\* The second half of assignShift, reached with the shift found and the
\* pair not yet assigned: the configuration, the new shift's duration and
\* the daily total.  done: the steps evaluated so far.
assignShiftHours(empId, shiftId, shift, done) ==
    LET maxDailyHours == getConfig.maxDailyHours
        s4 == Append(done, "getConfig")
    IN
    IF maxDailyHours.kind # "num" \/ maxDailyHours.n <= 0
    THEN [msg |-> MsgConfig, steps |-> s4, write |-> FALSE]
    ELSE
    LET newShiftMinutes == getShiftMinutes(shift.startTime, shift.endTime)
        s5 == Append(s4, "getShiftMinutes")
    IN
    IF ~IsFiniteNum(newShiftMinutes) \/ newShiftMinutes <= 0
    THEN [msg |-> MsgFormat, steps |-> s5, write |-> FALSE]
    ELSE
    LET scheduled == getEmployeeShifts(empId)
        loop == scheduledLoop(scheduled, shift.date, 1, 0, 0)
        s6 == Append(s5, "getEmployeeShifts") \o Repeat("getShiftMinutes", loop.calls)
        maxDailyMinutes == maxDailyMinutesOf(maxDailyHours)
    IN
    IF ~loop.ok THEN [msg |-> MsgFormat, steps |-> s6, write |-> FALSE]
    ELSE IF limitExceeded(loop.total, newShiftMinutes, maxDailyMinutes)
    THEN [msg |-> MsgLimit, steps |-> s6, write |-> FALSE]
    ELSE [msg |-> MsgOk, steps |-> Append(s6, "addAssignment"), write |-> TRUE]

\* assignShift with the shift looked up, and its duration checked, before
\* the employee.
assignShiftShiftFirst(empId, shiftId) ==
    LET found == findShift(shiftId)
        s1 == <<"findShift">>
    IN
    IF found = Undefined THEN [msg |-> MsgNoShift, steps |-> s1, write |-> FALSE]
    ELSE
    LET shift == found[1]
        newShiftMinutes == getShiftMinutes(shift.startTime, shift.endTime)
        s2 == Append(s1, "getShiftMinutes")
    IN
    IF ~IsFiniteNum(newShiftMinutes) \/ newShiftMinutes <= 0
    THEN [msg |-> MsgFormat, steps |-> s2, write |-> FALSE]
    ELSE
    LET employee == findEmployee(empId)
        s3 == Append(s2, "findEmployee")
    IN
    IF employee = Undefined THEN [msg |-> MsgNoEmployee, steps |-> s3, write |-> FALSE]
    ELSE IF findAssignment(empId, shiftId) # Undefined
    THEN [msg |-> MsgAssigned, steps |-> Append(s3, "findAssignment"), write |-> FALSE]
    ELSE assignShiftHours(empId, shiftId, shift, Append(s3, "findAssignment"))

\* One call of assignShift run to completion: the message it returns, the
\* steps it evaluated, and whether it reached addAssignment.
assignShift(empId, shiftId) ==
    LET employee == findEmployee(empId)
        s1 == <<"findEmployee">>
    IN
    IF employee = Undefined THEN [msg |-> MsgNoEmployee, steps |-> s1, write |-> FALSE]
    ELSE
    LET found == findShift(shiftId)
        s2 == Append(s1, "findShift")
    IN
    IF found = Undefined THEN [msg |-> MsgNoShift, steps |-> s2, write |-> FALSE]
    ELSE
    LET shift == found[1]
        assignment == findAssignment(empId, shiftId)
        s3 == Append(s2, "findAssignment")
    IN
    IF assignment # Undefined THEN [msg |-> MsgAssigned, steps |-> s3, write |-> FALSE]
    ELSE assignShiftHours(empId, shiftId, shift, s3)

-----------------------------------------------------------------------------
(* The stores and arguments of the assignment specification                *)

\* The longest assignments store a behaviour starts from.
MaxInitAssignments == 1

E001 == <<"E", "0", "0", "1">>
E002 == <<"E", "0", "0", "2">>
E999 == <<"E", "9", "9", "9">>
S001 == <<"S", "0", "0", "1">>
S002 == <<"S", "0", "0", "2">>
S003 == <<"S", "0", "0", "3">>
S004 == <<"S", "0", "0", "4">>
S005 == <<"S", "0", "0", "5">>
S006 == <<"S", "0", "0", "6">>
S999 == <<"S", "9", "9", "9">>

Day1 == <<"2", "0", "2", "6", "-", "0", "1", "-", "0", "5">>
Day2 == <<"2", "0", "2", "6", "-", "0", "1", "-", "0", "6">>

Clock(h1, h2, m1, m2) == <<h1, h2, ":", m1, m2>>

Employee(id, name, phone) == [employeeId |-> id, name |-> name, phone |-> phone]
Shift(id, date, startTime, endTime) ==
    [shiftId |-> id, date |-> date, startTime |-> startTime, endTime |-> endTime]

\* employees.json of the assignment specification.
EmployeesFile ==
    << Employee(E001, <<"a">>, <<"1">>), Employee(E002, <<"b">>, <<"2">>) >>

\* shifts.json: a day shift of 480 minutes, an overnight shift of 240, a
\* 7-minute shift, a shift on another date, a shift whose start time is
\* malformed ("9:00 " is not HH:MM) and a shift that ends when it starts.
ShiftsFile ==
    << Shift(S001, Day1, Clock("0", "9", "0", "0"), Clock("1", "7", "0", "0")),
       Shift(S002, Day1, Clock("2", "2", "0", "0"), Clock("0", "2", "0", "0")),
       Shift(S003, Day1, Clock("1", "2", "0", "0"), Clock("1", "2", "0", "7")),
       Shift(S004, Day2, Clock("0", "9", "0", "0"), Clock("1", "7", "0", "0")),
       Shift(S005, Day1, <<"9", ":", "0", "0", " ">>, Clock("1", "7", "0", "0")),
       Shift(S006, Day1, Clock("0", "9", "0", "0"), Clock("0", "9", "0", "0")) >>

\* config.json: 12 h, 4.125 h (247.5 minutes), and two values readSettings
\* replaces by the default of 8 h: 0, and a missing or non-numeric value.
ConfigValues == {Num(12, 1), Num(33, 8), Num(0, 1), NotANumber}

StoredEmployeeIds == {EmployeesFile[i].employeeId : i \in 1..Len(EmployeesFile)}
StoredShiftIds    == {ShiftsFile[i].shiftId : i \in 1..Len(ShiftsFile)}
\* The employee ids calls are made with: one that is stored, one that is
\* not.  E002 is stored too and holds assignments in the initial stores.
EmpIdArgs   == {E001, E999}
ShiftIdArgs == StoredShiftIds \cup {S999}

AssignmentRecords == [employeeId : StoredEmployeeIds, shiftId : StoredShiftIds]

SeqsUpTo(S, n) == UNION {[1..k -> S] : k \in 0..n}

NoCall == [op |-> "none", empId |-> <<>>, shiftId |-> <<>>]

Init ==
    /\ employees = EmployeesFile
    /\ shifts = ShiftsFile
    /\ config \in ConfigValues
    /\ assignments \in SeqsUpTo(AssignmentRecords, MaxInitAssignments)
    /\ assignments0 = assignments
    /\ call = NoCall
    /\ result = ""
    /\ steps = <<>>
    /\ inflight = <<>>

AssignShift ==
    \E empId \in EmpIdArgs, shiftId \in ShiftIdArgs :
      \E r \in {assignShift(empId, shiftId)} :
            /\ call' = [op |-> "assignShift", empId |-> empId, shiftId |-> shiftId]
            /\ result' = r.msg
            /\ steps' = r.steps
            /\ assignments' = IF r.write THEN addAssignment(empId, shiftId) ELSE assignments
            /\ UNCHANGED <<employees, shifts, config, assignments0, inflight>>

Next == AssignShift

Spec == Init /\ [][Next]_vars

-----------------------------------------------------------------------------
(* Properties of the assignment workflow                                   *)

NoRepeat(store) ==
    \A i, j \in 1..Len(store) : i # j => store[i] # store[j]

Dates == {shifts[i].date : i \in 1..Len(shifts)}

\* The shifts.json entries assigned to empId in store that fall on date.
AssignedOn(store, empId, date) ==
    {i \in 1..Len(shifts) :
        /\ shifts[i].date = date
        /\ \E k \in 1..Len(store) :
              store[k].employeeId = empId /\ store[k].shiftId = shifts[i].shiftId}

Duration(i) == getShiftMinutes(shifts[i].startTime, shifts[i].endTime)

RECURSIVE SumDurations(_)
SumDurations(S) ==
    IF S = {} THEN 0
    ELSE LET i == CHOOSE x \in S : TRUE
         IN  (IF IsFiniteNum(Duration(i)) THEN Duration(i) ELSE 0) + SumDurations(S \ {i})

\* Minutes assigned to empId on date; a shift without a valid duration counts 0.
DayTotal(store, empId, date) == SumDurations(AssignedOn(store, empId, date))

\* minutes <= maxDailyHours * 60, for the maxDailyHours in force.
WithinCap(minutes) ==
    LET h == getConfig.maxDailyHours IN minutes * h.d <= h.n * 60

CapHolds(store) ==
    \A e \in StoredEmployeeIds, d \in Dates : WithinCap(DayTotal(store, e, d))

IsAssignCall(c) == c.op = "assignShift"

\* C1: from a store without a repeated (employeeId, shiftId) pair, every
\* sequence of completed assignShift calls leaves every pair stored at most once.
C1_PairStoredAtMostOnce == NoRepeat(assignments0) => NoRepeat(assignments)

\* A repeated request was turned down after a first one had been stored.
C1_Witness ==
    /\ NoRepeat(assignments0)
    /\ Len(assignments) > Len(assignments0)
    /\ IsAssignCall(call)
    /\ result = MsgAssigned

\* C2: with shifts and maxDailyHours fixed, from a store within the cap, after
\* every sequence of completed assignShift calls each employee's minutes on
\* each date are at most maxDailyHours * 60.
C2_DailyCapHolds == CapHolds(assignments0) => CapHolds(assignments)

\* A call was turned down for the limit after an earlier one had been stored.
C2_Witness ==
    /\ CapHolds(assignments0)
    /\ Len(assignments) > Len(assignments0)
    /\ IsAssignCall(call)
    /\ result = MsgLimit

\* C3: a call that does not return "Ok" leaves employees, shifts, config and
\* assignments as they were; assignments changes only in a call that returns
\* "Ok", and then by gaining the record (empId, shiftId) alone.
C3_FailureLeavesStores ==
    [][ IsAssignCall(call') =>
          /\ employees' = employees /\ shifts' = shifts /\ config' = config
          /\ (result' # MsgOk => assignments' = assignments)
          /\ (result' = MsgOk =>
                assignments' = Append(assignments,
                    [employeeId |-> call'.empId, shiftId |-> call'.shiftId])) ]_vars

\* Both kinds of call happened on a non-empty store: one stored a record,
\* and a later one was turned down.
C3_Witness ==
    /\ Len(assignments0) > 0
    /\ Len(assignments) > Len(assignments0)
    /\ IsAssignCall(call)
    /\ result \in {MsgLimit, MsgFormat, MsgAssigned, MsgNoShift, MsgNoEmployee}

EmployeeExists(empId) == \E i \in 1..Len(employees) : employees[i].employeeId = empId
ShiftExists(shiftId) == \E i \in 1..Len(shifts) : shifts[i].shiftId = shiftId
ShiftIndex(shiftId) == CHOOSE i \in 1..Len(shifts) : shifts[i].shiftId = shiftId
PairStored(empId, shiftId) ==
    \E k \in 1..Len(assignments) :
        assignments[k].employeeId = empId /\ assignments[k].shiftId = shiftId
ConfigUsable == LET h == getConfig.maxDailyHours IN h.kind = "num" /\ h.n > 0
PositiveDuration(i) == IsFiniteNum(Duration(i)) /\ Duration(i) > 0
SameDayShifts(empId, shiftId) ==
    AssignedOn(assignments, empId, shifts[ShiftIndex(shiftId)].date)
SameDayValid(empId, shiftId) ==
    \A i \in SameDayShifts(empId, shiftId) : PositiveDuration(i)
SameDayTotalWith(empId, shiftId) ==
    SumDurations(SameDayShifts(empId, shiftId)) + Duration(ShiftIndex(shiftId))

CheckOrder ==
    <<"findEmployee", "findShift", "findAssignment", "getConfig",
      "getShiftMinutes", "getEmployeeShifts">>

\* The first check, in the documented order, that the call fails (7: none).
FirstFailing(empId, shiftId) ==
    IF ~EmployeeExists(empId) THEN 1
    ELSE IF ~ShiftExists(shiftId) THEN 2
    ELSE IF PairStored(empId, shiftId) THEN 3
    ELSE IF ~ConfigUsable THEN 4
    ELSE IF ~PositiveDuration(ShiftIndex(shiftId)) THEN 5
    ELSE IF ~SameDayValid(empId, shiftId) \/ ~WithinCap(SameDayTotalWith(empId, shiftId))
    THEN 6
    ELSE 7

\* The message of each check; the sixth validates each same-date shift, then
\* compares the total.
MessageOf(k, empId, shiftId) ==
    CASE k = 1 -> MsgNoEmployee
      [] k = 2 -> MsgNoShift
      [] k = 3 -> MsgAssigned
      [] k = 4 -> MsgConfig
      [] k = 5 -> MsgFormat
      [] k = 6 -> IF SameDayValid(empId, shiftId) THEN MsgLimit ELSE MsgFormat
      [] k = 7 -> MsgOk

\* C4: the checks run in the order employee, shift, pair, config, new
\* duration, same-day total; the call returns the message of the first one
\* that fails and evaluates nothing after it; a missing employee or shift is
\* turned down before any duration is computed.
C4_ChecksInOrder ==
    [][ IsAssignCall(call') =>
          \E k \in {FirstFailing(call'.empId, call'.shiftId)} :
            \E n \in {IF k > 6 THEN 6 ELSE k} :
              /\ result' = MessageOf(k, call'.empId, call'.shiftId)
              /\ Len(steps') >= n
              /\ SubSeq(steps', 1, n) = SubSeq(CheckOrder, 1, n)
              /\ (k < 6 => Len(steps') = k)
              /\ (k <= 2 => \A i \in 1..Len(steps') : steps'[i] # "getShiftMinutes")
              /\ (k <= 6 => \A i \in 1..Len(steps') : steps'[i] # "addAssignment") ]_vars

\* A missing employee was turned down for a shift whose times are malformed,
\* and a missing shift for an employee who exists.
C4_Witness ==
    /\ IsAssignCall(call)
    /\ \/ call.empId = E999 /\ call.shiftId = S005 /\ result = MsgNoEmployee
       \/ call.empId = E001 /\ call.shiftId = S999 /\ result = MsgNoShift

ValidTimes(i) ==
    IsFiniteNum(toMinutes(shifts[i].startTime)) /\ IsFiniteNum(toMinutes(shifts[i].endTime))

\* The limit decides the call: turned down exactly when the total is over
\* maxDailyHours * 60, stored otherwise.
LimitDecides(empId, shiftId) ==
    IF WithinCap(SameDayTotalWith(empId, shiftId))
    THEN result' = MsgOk
    ELSE result' = MsgLimit

\* C5 as stated: for an existing employee and an existing, not yet assigned
\* shift with valid times, all same-date assigned shifts having valid
\* positive durations, the limit decides the call.
C5_AsStated ==
    [][ ( /\ IsAssignCall(call')
          /\ EmployeeExists(call'.empId)
          /\ ShiftExists(call'.shiftId)
          /\ ~PairStored(call'.empId, call'.shiftId)
          /\ ValidTimes(ShiftIndex(call'.shiftId))
          /\ SameDayValid(call'.empId, call'.shiftId) )
        => LimitDecides(call'.empId, call'.shiftId) ]_vars

\* C5, amended: the same, for a shift whose start and end times differ
\* (a duration of 0 is turned down as an invalid time format).
C5_LimitDecides ==
    [][ ( /\ IsAssignCall(call')
          /\ EmployeeExists(call'.empId)
          /\ ShiftExists(call'.shiftId)
          /\ ~PairStored(call'.empId, call'.shiftId)
          /\ ValidTimes(ShiftIndex(call'.shiftId))
          /\ Duration(ShiftIndex(call'.shiftId)) # 0
          /\ SameDayValid(call'.empId, call'.shiftId) )
        => LimitDecides(call'.empId, call'.shiftId) ]_vars

\* A call was stored that brought the day's total to floor(maxDailyHours * 60)
\* exactly, under a fractional maxDailyHours and with a shift on another date
\* already assigned.
C5_Witness ==
    /\ IsAssignCall(call)
    /\ result = MsgOk
    /\ config = Num(33, 8)
    /\ DayTotal(assignments, call.empId, Day1) = maxDailyMinutesOf(config)
    /\ DayTotal(assignments, call.empId, Day2) > 0
    /\ shifts[ShiftIndex(call.shiftId)].date = Day1

-----------------------------------------------------------------------------
(* The time utility on its own: toMinutes                                  *)

\* The characters an hour or minute part is drawn from.
PartChars == {"0", "2", "3", "4", "5", "6", "9", " ", "+", "-", ".", "a"}

TwoChars == {<<a, b>> : a \in PartChars, b \in PartChars}

\* Every part ":" part and part "-" part, and texts of other lengths.
TimeTexts ==
    {p \o <<sep>> \o q : p \in TwoChars, q \in TwoChars, sep \in {":", "-"}}
    \cup { <<>>, <<"9", ":", "3", "0">>, <<"0", "9", "3", "0">>,
           <<"0", "9", ":", "3", "0", "0">>, <<"0", "9", ":", "3">>,
           <<":", "0", "9", "3", "0">> }

InitToMinutes ==
    /\ employees = <<>> /\ shifts = <<>> /\ assignments = <<>> /\ assignments0 = <<>>
    /\ config = NotANumber
    /\ call \in [op : {"none"}, timeText : TimeTexts]
    /\ result = NaN
    /\ steps = <<>>
    /\ inflight = <<>>

ToMinutes ==
    /\ call.op = "none"
    /\ call' = [call EXCEPT !.op = "toMinutes"]
    /\ result' = toMinutes(call.timeText)
    /\ UNCHANGED <<employees, shifts, assignments, config, assignments0, steps, inflight>>

SpecToMinutes == InitToMinutes /\ [][ToMinutes]_vars

\* A text in HH:MM format: five characters, ":" third, two digits on
\* each side, the hour at most 23 and the minute at most 59.
HourOf(t)   == 10 * DigitVal(t[1]) + DigitVal(t[2])
MinuteOf(t) == 10 * DigitVal(t[4]) + DigitVal(t[5])
IsHHMM(t) ==
    /\ Len(t) = 5
    /\ t[3] = ":"
    /\ \A i \in {1, 2, 4, 5} : t[i] \in Digits
    /\ HourOf(t) <= 23
    /\ MinuteOf(t) <= 59

\* C7: toMinutes returns hour * 60 + minute exactly for the HH:MM texts, and
\* NaN for every other text: wrong length, wrong separator, a part that is
\* not two digits (one holding a space, a sign or a letter), hour > 23,
\* minute > 59.
C7_AsStated ==
    call.op = "toMinutes" =>
        result = IF IsHHMM(call.timeText)
                 THEN HourOf(call.timeText) * 60 + MinuteOf(call.timeText)
                 ELSE NaN

-----------------------------------------------------------------------------
(* The time utility on its own: getShiftMinutes                            *)

ClockHours   == {<<"0", "0">>, <<"0", "2">>, <<"0", "9">>, <<"1", "7">>, <<"2", "2">>, <<"2", "3">>}
ClockMinutes == {<<"0", "0">>, <<"0", "1">>, <<"3", "0">>, <<"5", "9">>}

\* Times of day, and texts toMinutes turns down.
ClockTexts ==
    {h \o <<":">> \o m : h \in ClockHours, m \in ClockMinutes}
    \cup { <<"2", "4", ":", "0", "0">>, <<"0", "9", ":", "6", "0">>,
           <<"9", ":", "0", "0", " ">>, <<"9", ":", "3", "0">>,
           <<"0", "9", "-", "0", "0">>, <<>> }

InitShiftMinutes ==
    /\ employees = <<>> /\ shifts = <<>> /\ assignments = <<>> /\ assignments0 = <<>>
    /\ config = NotANumber
    /\ call \in [op : {"none"}, startTime : ClockTexts, endTime : ClockTexts]
    /\ result = NaN
    /\ steps = <<>>
    /\ inflight = <<>>

GetShiftMinutes ==
    /\ call.op = "none"
    /\ call' = [call EXCEPT !.op = "getShiftMinutes"]
    /\ result' = getShiftMinutes(call.startTime, call.endTime)
    /\ UNCHANGED <<employees, shifts, assignments, config, assignments0, steps, inflight>>

SpecShiftMinutes == InitShiftMinutes /\ [][GetShiftMinutes]_vars

MinutesPerDay == 1440

\* C6: for valid start and end, getShiftMinutes is end - start when
\* end >= start and end - start + 1440 when end < start, hence within
\* 0..1439 and 0 exactly when start = end; with an invalid input it is NaN;
\* 22:00-02:00 gives 240 and 09:00-17:00 gives 480.
C6_ShiftMinutes ==
    call.op = "getShiftMinutes" =>
        LET s == toMinutes(call.startTime)
            e == toMinutes(call.endTime)
        IN  /\ (IsFiniteNum(s) /\ IsFiniteNum(e) /\ e >= s) => result = e - s
            /\ (IsFiniteNum(s) /\ IsFiniteNum(e) /\ e < s) => result = e - s + MinutesPerDay
            /\ (IsFiniteNum(s) /\ IsFiniteNum(e)) =>
                  /\ result \in 0..(MinutesPerDay - 1)
                  /\ (result = 0 <=> s = e)
            /\ (~IsFiniteNum(s) \/ ~IsFiniteNum(e)) => result = NaN
            /\ (call.startTime = Clock("2", "2", "0", "0") /\ call.endTime = Clock("0", "2", "0", "0"))
                  => result = 240
            /\ (call.startTime = Clock("0", "9", "0", "0") /\ call.endTime = Clock("1", "7", "0", "0"))
                  => result = 480

\* The overnight example, and a shift that ends when it starts, were computed.
C6_Witness ==
    /\ call.op = "getShiftMinutes"
    /\ \/ /\ call.startTime = Clock("2", "2", "0", "0")
          /\ call.endTime = Clock("0", "2", "0", "0")
          /\ result = 240
       \/ /\ call.startTime = call.endTime
          /\ IsFiniteNum(toMinutes(call.startTime))
          /\ result = 0

-----------------------------------------------------------------------------
(* Adding employees (Assignment2)                                          *)

\* String(n) for an integer n >= 0.
RECURSIVE NumberToString(_)
NumberToString(n) ==
    IF n < 10 THEN <<DigitChar(n)>>
    ELSE Append(NumberToString(n \div 10), DigitChar(n % 10))

\* text.padStart(width, fill) for a one-character fill.
RECURSIVE padStart(_, _, _)
padStart(text, width, fill) ==
    IF Len(text) >= width THEN text ELSE padStart(<<fill>> \o text, width, fill)

\* The loop computing maxId, from index i on.  The identifiers of the model
\* hold no ".", so Number() of a suffix is an integer or NaN, and a
\* comparison with NaN is false.
RECURSIVE maxIdLoop(_, _, _)
maxIdLoop(list, i, maxId) ==
    IF i > Len(list) THEN maxId
    ELSE LET numericId == StringToNumber(Slice(list[i].employeeId, 1, Len(list[i].employeeId)))
         IN  IF numericId.kind = "int" /\ numericId.val > maxId
             THEN maxIdLoop(list, i + 1, numericId.val)
             ELSE maxIdLoop(list, i + 1, maxId)

IdWidth == 3

\* The identifier generated for the next record of list.
nextEmployeeIdByCount(list) ==
    <<"E">> \o padStart(NumberToString(Len(list) + 1), IdWidth, "0")

nextEmployeeId(list) ==
    <<"E">> \o padStart(NumberToString(maxIdLoop(list, 1, 0) + 1), IdWidth, "0")

\* The file content addEmployeeRecord writes back.
addEmployeeRecord(emp) ==
    Append(employees, Employee(nextEmployeeId(employees), emp.name, emp.phone))

addEmployee(emp) == addEmployeeRecord(emp)

\* The longest employees store a behaviour starts from, and the length at
\* which no further employee is added.
MaxInitEmployees == 2
MaxEmployees == 4

\* Identifiers found in an employees file: generated ones, hand-written ones
\* without padding, one at the end of the three-digit range, and suffixes
\* that are empty, negative or not a number.
EmployeeIdPool ==
    { E001, E002, E999, <<"E", "1">>, <<"E", "0", "1", "0">>,
      <<"E">>, <<"E", "-", "5">>, <<"E", "X">> }

NewEmployees == { [name |-> <<"a">>, phone |-> <<"1">>], [name |-> <<"b">>, phone |-> <<"2">>] }

IdsOf(list) == {list[i].employeeId : i \in 1..Len(list)}

DistinctIds(list) ==
    \A i, j \in 1..Len(list) : i # j => list[i].employeeId # list[j].employeeId

InitEmployees ==
    /\ \E ids \in SeqsUpTo(EmployeeIdPool, MaxInitEmployees) :
          /\ \A i, j \in 1..Len(ids) : i # j => ids[i] # ids[j]
          /\ employees = [i \in 1..Len(ids) |-> Employee(ids[i], <<"a">>, <<"1">>)]
    /\ shifts = <<>> /\ assignments = <<>> /\ assignments0 = <<>>
    /\ config = NotANumber
    /\ call = [op |-> "none", emp |-> [name |-> <<>>, phone |-> <<>>]]
    /\ result = ""
    /\ steps = <<>>
    /\ inflight = <<>>

AddEmployee ==
    /\ Len(employees) < MaxEmployees
    /\ \E emp \in NewEmployees :
          /\ employees' = addEmployee(emp)
          /\ call' = [op |-> "addEmployee", emp |-> emp]
    /\ result' = ""
    /\ UNCHANGED <<shifts, assignments, config, assignments0, steps, inflight>>

SpecEmployees == InitEmployees /\ [][AddEmployee]_vars

\* The numeric suffixes of the stored identifiers that are integers.
Suffixes(list) ==
    {n \in {StringToNumber(Tail(id)) : id \in IdsOf(list)} : n.kind = "int"}

MaxSuffix(list) ==
    IF \E n \in Suffixes(list) : n.val > 0
    THEN LET top == CHOOSE n \in Suffixes(list) : \A k \in Suffixes(list) : k.val <= n.val
         IN  top.val
    ELSE 0

\* C9: from a store of pairwise distinct employeeId values, the values stay
\* pairwise distinct; each addEmployee call adds exactly one record, whose id
\* is "E" followed by the largest numeric suffix plus one, padded with zeros
\* to three digits, and differs from every id stored; the records stored stay
\* as they were.
C9_IdsStayDistinct ==
    /\ [] DistinctIds(employees)
    /\ [][ call'.op = "addEmployee" =>
             LET new == employees'[Len(employees')]
             IN  /\ Len(employees') = Len(employees) + 1
                 /\ SubSeq(employees', 1, Len(employees)) = employees
                 /\ new.employeeId \notin IdsOf(employees)
                 /\ new.employeeId =
                       <<"E">> \o padStart(NumberToString(MaxSuffix(employees) + 1), IdWidth, "0")
                 /\ new.name = call'.emp.name
                 /\ new.phone = call'.emp.phone ]_vars

\* An employee was added to a store holding differently padded identifiers
\* with the same number, and one was added past the three-digit range.
C9_Witness ==
    /\ call.op = "addEmployee"
    /\ \/ {E001, <<"E", "1">>, E002} \subseteq IdsOf(employees)
       \/ {E999, <<"E", "1", "0", "0", "0">>} \subseteq IdsOf(employees)

-----------------------------------------------------------------------------
(* Persistence and business layer of Assignment3 (MongoDB)                 *)

\* a < b for two strings: code units compared from the left, a proper
\* prefix being the smaller.
RECURSIVE StrLess(_, _)
StrLess(a, b) ==
    IF b = <<>> THEN FALSE
    ELSE IF a = <<>> THEN TRUE
    ELSE IF Code(Head(a)) # Code(Head(b)) THEN Code(Head(a)) < Code(Head(b))
    ELSE StrLess(Tail(a), Tail(b))

\* findOne({ employeeId: empId }) || undefined
mongoFindEmployee(empId) ==
    LET hits == {i \in 1..Len(employees) : employees[i].employeeId = empId}
    IN  IF hits = {} THEN Undefined ELSE <<employees[First(hits)]>>

\* The shifts whose shiftId is among the employee's assignments, in the
\* order the collection holds them.
mongoGetEmployeeShifts(empId) ==
    LET shiftIds == {assignments[i].shiftId :
                        i \in {j \in 1..Len(assignments) : assignments[j].employeeId = empId}}
        Test(s) == s.shiftId \in shiftIds
    IN  IF shiftIds = {} THEN <<>> ELSE SelectSeq(shifts, Test)

\* updateOne({ employeeId: empId }, { $set: { name, phone } }): the first
\* matching document is updated; without a match nothing is.
mongoUpdateEmployee(empId, name, phone) ==
    LET hits == {i \in 1..Len(employees) : employees[i].employeeId = empId}
    IN  IF hits = {} THEN employees
        ELSE [employees EXCEPT ![First(hits)] = [@ EXCEPT !.name = name, !.phone = phone]]

getEmployee(empId) == mongoFindEmployee(empId)

updateEmployee(empId, name, phone) == mongoUpdateEmployee(empId, name, phone)

sortKey(s) == s.date \o <<" ">> \o s.startTime

\* The inner loop of the bubble sort, from index j on (1-based).
RECURSIVE bubblePass(_, _)
bubblePass(list, j) ==
    IF j > Len(list) - 1 THEN list
    ELSE IF StrLess(sortKey(list[j + 1]), sortKey(list[j]))
    THEN bubblePass([list EXCEPT ![j] = list[j + 1], ![j + 1] = list[j]], j + 1)
    ELSE bubblePass(list, j + 1)

\* A sort that runs the inner loop once.
bubbleSortOnePass(list, i) == bubblePass(list, 1)

\* The outer loop, from pass i on: one inner loop per element.
RECURSIVE bubbleSort(_, _)
bubbleSort(list, i) ==
    IF i > Len(list) THEN list ELSE bubbleSort(bubblePass(list, 1), i + 1)

getScheduleForEmployeeSorted(empId) ==
    bubbleSort(mongoGetEmployeeShifts(empId), 1)

-----------------------------------------------------------------------------
(* The sorted schedule on its own                                          *)

\* The most shifts the shifts collection holds.
MaxShifts == 3

Day10 == <<"2", "0", "2", "6", "-", "0", "1", "-", "1", "0">>
Day1Short == <<"2", "0", "2", "6", "-", "0", "1", "-", "1">>

\* Dates (one of them a prefix of another) and start times of the shifts.
ScheduleKeys ==
    [date : {Day1, Day10, Day1Short},
     startTime : {Clock("0", "9", "0", "0"), Clock("1", "3", "3", "0")}]

ShiftIdOf(i) == <<"S", "0", "0", DigitChar(i)>>

InitSchedule ==
    /\ employees = EmployeesFile
    /\ \E n \in 0..MaxShifts :
          /\ \E keys \in [1..n -> ScheduleKeys] :
                shifts = [i \in 1..n |->
                            Shift(ShiftIdOf(i), keys[i].date, keys[i].startTime,
                                  Clock("1", "7", "0", "0"))]
          /\ \E owner \in [1..n -> StoredEmployeeIds] :
                assignments = [i \in 1..n |->
                                 [employeeId |-> owner[i], shiftId |-> ShiftIdOf(i)]]
    /\ assignments0 = assignments
    /\ config = NotANumber
    /\ call = [op |-> "none", empId |-> <<>>]
    /\ result = <<>>
    /\ steps = <<>>
    /\ inflight = <<>>

GetScheduleForEmployeeSorted ==
    \E empId \in EmpIdArgs \cup StoredEmployeeIds :
        /\ call' = [op |-> "getScheduleForEmployeeSorted", empId |-> empId]
        /\ result' = getScheduleForEmployeeSorted(empId)
        /\ UNCHANGED <<employees, shifts, assignments, config, assignments0, steps, inflight>>

SpecSchedule == InitSchedule /\ [][GetScheduleForEmployeeSorted]_vars

Occurrences(list, x) == Cardinality({i \in 1..Len(list) : list[i] = x})

IsPermutation(a, b) ==
    /\ Len(a) = Len(b)
    /\ \A i \in 1..Len(b) : Occurrences(a, b[i]) = Occurrences(b, b[i])

\* x comes no later than y: by date, and by start time within a date.
InOrder(x, y) ==
    \/ StrLess(x.date, y.date)
    \/ x.date = y.date /\ ~StrLess(y.startTime, x.startTime)

\* C10: the sorted schedule is a permutation of the shifts persistence
\* returns for the employee, ordered by date ascending and, within a date,
\* by start time ascending.
C10_SortedPermutation ==
    call.op = "getScheduleForEmployeeSorted" =>
        /\ IsPermutation(result, mongoGetEmployeeShifts(call.empId))
        /\ \A i, j \in 1..Len(result) : i < j => InOrder(result[i], result[j])

\* A schedule of three shifts came back in another order than persistence
\* returned it, with two shifts of one date and a date that is a prefix of
\* another.
C10_Witness ==
    /\ call.op = "getScheduleForEmployeeSorted"
    /\ Len(result) = 3
    /\ result # mongoGetEmployeeShifts(call.empId)
    /\ result[1].date = Day1Short
    /\ result[2].date = Day10
    /\ result[3].date = Day10
    /\ result[2].startTime # result[3].startTime

-----------------------------------------------------------------------------
(* Web routes (Assignment3)                                                *)

\* A form field that is missing from the body: typeof is not "string".
NotAString == <<"undefined">>

Response(status, kind, what, data) ==
    [status |-> status, kind |-> kind, what |-> what, data |-> data]

NotFound      == Response(404, "send", "Employee not found", <<>>)
NameRequired  == Response(200, "send", "Validation failed: Name must be non-empty", <<>>)
PhoneRequired ==
    Response(200, "send",
             "Validation failed: Phone must be 4 digits, a dash, then 4 digits", <<>>)
RedirectHome  == Response(302, "redirect", "/", <<>>)

\* /^[0-9]{4}-[0-9]{4}$/.test(phone)
phoneOk(phone) ==
    /\ Len(phone) = 9
    /\ \A i \in {1, 2, 3, 4, 6, 7, 8, 9} : phone[i] \in Digits
    /\ phone[5] = "-"

\* The loop marking the shifts that start before noon.
withIsMorning(list) ==
    [i \in 1..Len(list) |->
        [shiftId |-> list[i].shiftId, date |-> list[i].date,
         startTime |-> list[i].startTime, endTime |-> list[i].endTime,
         isMorning |-> StrLess(list[i].startTime, Clock("1", "2", "0", "0"))]]

\* The response of each route, and for the edit submit the employees
\* collection it leaves.
getHomeRoute == Response(200, "render", "home", employees)

getEmployeeRoute(empId) ==
    LET employee == getEmployee(empId)
    IN  IF employee = Undefined THEN NotFound
        ELSE Response(200, "render", "employee",
                      [employee |-> employee[1],
                       shifts |-> withIsMorning(getScheduleForEmployeeSorted(empId))])

getEditRoute(empId) ==
    LET employee == getEmployee(empId)
    IN  IF employee = Undefined THEN NotFound
        ELSE Response(200, "render", "editEmployee", [employee |-> employee[1]])

postEditRoute(empId, body) ==
    LET name  == Trim(IF body.name = NotAString THEN <<>> ELSE body.name)
        phone == Trim(IF body.phone = NotAString THEN <<>> ELSE body.phone)
    IN  IF Len(name) = 0 THEN [response |-> NameRequired, employees |-> employees]
        ELSE IF ~phoneOk(phone) THEN [response |-> PhoneRequired, employees |-> employees]
        ELSE [response |-> RedirectHome, employees |-> updateEmployee(empId, name, phone)]

\* The form fields a request carries.
FormNames ==
    { NotAString, <<>>, <<" ">>, <<"a">>, <<" ", "b", " ">> }

GoodPhone == <<"1", "2", "3", "4", "-", "5", "6", "7", "8">>

FormPhones ==
    { NotAString, <<>>, GoodPhone, <<" ">> \o GoodPhone \o <<" ">>,
      <<"1", "2", "3", "4", "5", "6", "7", "8">>,
      <<"1", "2", "3", "4", "-", "5", "6", "7">>,
      <<"1", "2", "3", "4", "-", "5", "6", "7", "a">>,
      <<"1", "2", "3", "4", " ", "5", "6", "7", "8">>,
      GoodPhone \o <<"9">> }

NoBody == [name |-> NotAString, phone |-> NotAString]

\* The employees collection a behaviour starts from: empty, one employee, two.
InitWeb ==
    /\ employees \in {SubSeq(EmployeesFile, 1, n) : n \in 0..Len(EmployeesFile)}
    /\ shifts = ShiftsFile
    /\ assignments = << [employeeId |-> E001, shiftId |-> S004],
                        [employeeId |-> E001, shiftId |-> S002],
                        [employeeId |-> E001, shiftId |-> S001] >>
    /\ assignments0 = assignments
    /\ config = NotANumber
    /\ call = [op |-> "none", id |-> <<>>, body |-> NoBody]
    /\ result = Response(0, "none", "", <<>>)
    /\ steps = <<>>
    /\ inflight = <<>>

GetHome ==
    /\ call' = [op |-> "GET /", id |-> <<>>, body |-> NoBody]
    /\ result' = getHomeRoute
    /\ UNCHANGED <<employees, shifts, assignments, config, assignments0, steps, inflight>>

GetEmployee ==
    \E empId \in EmpIdArgs \cup StoredEmployeeIds :
        /\ call' = [op |-> "GET /employees/:id", id |-> empId, body |-> NoBody]
        /\ result' = getEmployeeRoute(empId)
        /\ UNCHANGED <<employees, shifts, assignments, config, assignments0, steps, inflight>>

GetEdit ==
    \E empId \in EmpIdArgs \cup StoredEmployeeIds :
        /\ call' = [op |-> "GET /employees/:id/edit", id |-> empId, body |-> NoBody]
        /\ result' = getEditRoute(empId)
        /\ UNCHANGED <<employees, shifts, assignments, config, assignments0, steps, inflight>>

PostEdit ==
    \E empId \in EmpIdArgs \cup StoredEmployeeIds, name \in FormNames, phone \in FormPhones :
        LET body == [name |-> name, phone |-> phone]
            r == postEditRoute(empId, body)
        IN  /\ call' = [op |-> "POST /employees/:id/edit", id |-> empId, body |-> body]
            /\ result' = r.response
            /\ employees' = r.employees
            /\ UNCHANGED <<shifts, assignments, config, assignments0, steps, inflight>>

NextWeb == GetHome \/ GetEmployee \/ GetEdit \/ PostEdit

SpecWeb == InitWeb /\ [][NextWeb]_vars

Stored(empId) == \E i \in 1..Len(employees) : employees[i].employeeId = empId

FieldText(x) == Trim(IF x = NotAString THEN <<>> ELSE x)

\* Four digits, a dash, four digits.
PhoneShape(t) ==
    /\ Len(t) = 9
    /\ t[5] = "-"
    /\ AllDigits(SubSeq(t, 1, 4))
    /\ AllDigits(SubSeq(t, 6, 9))

\* The employees collection with the name and phone of empId replaced.
Edited(empId, name, phone) ==
    [i \in 1..Len(employees) |->
        IF employees[i].employeeId = empId
        THEN Employee(empId, name, phone)
        ELSE employees[i]]

\* C8: an edit submit ends in exactly one of: 404 when no employee has the
\* id; an inline validation text, nothing updated, when the trimmed name is
\* empty or the trimmed phone is not four digits, a dash, four digits;
\* otherwise the employee's name and phone updated to the trimmed values and
\* a redirect to "/".  The two GET routes answer 404 for a missing employee
\* and never modify stored data.
C8_AsStated ==
    [][ /\ call'.op = "POST /employees/:id/edit" =>
             LET name  == FieldText(call'.body.name)
                 phone == FieldText(call'.body.phone)
             IN  IF ~Stored(call'.id)
                 THEN result'.status = 404 /\ employees' = employees
                 ELSE IF name = <<>> \/ ~PhoneShape(phone)
                 THEN /\ result'.kind = "send"
                      /\ result'.status = 200
                      /\ employees' = employees
                 ELSE /\ result' = RedirectHome
                      /\ employees' = Edited(call'.id, name, phone)
        /\ call'.op \in {"GET /employees/:id", "GET /employees/:id/edit"} =>
             /\ (~Stored(call'.id) => result'.status = 404)
             /\ (Stored(call'.id) => result'.status = 200)
             /\ employees' = employees
             /\ shifts' = shifts
             /\ assignments' = assignments ]_vars

-----------------------------------------------------------------------------
(* assignShift calls in flight together                                    *)
(*                                                                         *)
(* An async function runs without interruption from one await to the next; *)
(* at an await of fs.readFile or fs.writeFile the other calls in flight    *)
(* may run.  Each action below is one such stretch of one call: the file   *)
(* operation it was waiting for, then the code up to the next file         *)
(* operation.  A read returns the file as it is at that step and a write   *)
(* replaces the whole file in one step.                                    *)

\* The number of assignShift calls made without awaiting one another.
MaxCalls == 2

Calls == 1..MaxCalls

\* A call not made yet: its position and its locals.
Idle ==
    [pc |-> "idle", empId |-> <<>>, shiftId |-> <<>>, shift |-> Undefined,
     maxDailyHours |-> NotANumber, newShiftMinutes |-> 0, shiftIds |-> {},
     fileContent |-> <<>>, msg |-> ""]

\* The call c having returned msg.
Returned(c, msg) == [c EXCEPT !.pc = "done", !.msg = msg]

InitConcurrent ==
    /\ employees = EmployeesFile
    /\ shifts = ShiftsFile
    /\ config \in ConfigValues
    /\ assignments \in SeqsUpTo(AssignmentRecords, MaxInitAssignments)
    /\ assignments0 = assignments
    /\ call = NoCall
    /\ result = ""
    /\ steps = <<>>
    /\ inflight = [p \in Calls |-> Idle]

\* assignShift(empId, shiftId) is called: it runs up to the read of
\* findEmployee.
CallAssignShift(p) ==
    /\ inflight[p].pc = "idle"
    /\ \E empId \in EmpIdArgs, shiftId \in ShiftIdArgs :
          inflight' = [inflight EXCEPT ![p] =
              [Idle EXCEPT !.pc = "findEmployee", !.empId = empId, !.shiftId = shiftId]]
    /\ UNCHANGED <<employees, shifts, assignments, config, assignments0, call, result, steps>>

\* The read of findEmployee, the employee check, up to the read of findShift.
FindEmployee(p) ==
    /\ inflight[p].pc = "findEmployee"
    /\ \E c \in {inflight[p]} :
          inflight' = [inflight EXCEPT ![p] =
              IF findEmployee(c.empId) = Undefined
              THEN Returned(c, MsgNoEmployee)
              ELSE [c EXCEPT !.pc = "findShift"]]
    /\ UNCHANGED <<employees, shifts, assignments, config, assignments0, call, result, steps>>

\* The read of findShift, the shift check, up to the read of findAssignment.
FindShift(p) ==
    /\ inflight[p].pc = "findShift"
    /\ \E c \in {inflight[p]} : \E found \in {findShift(c.shiftId)} :
          inflight' = [inflight EXCEPT ![p] =
              IF found = Undefined
              THEN Returned(c, MsgNoShift)
              ELSE [c EXCEPT !.pc = "findAssignment", !.shift = found]]
    /\ UNCHANGED <<employees, shifts, assignments, config, assignments0, call, result, steps>>

\* The read of findAssignment, the duplicate check, up to the read of getConfig.
FindAssignment(p) ==
    /\ inflight[p].pc = "findAssignment"
    /\ \E c \in {inflight[p]} :
          inflight' = [inflight EXCEPT ![p] =
              IF findAssignment(c.empId, c.shiftId) # Undefined
              THEN Returned(c, MsgAssigned)
              ELSE [c EXCEPT !.pc = "getConfig"]]
    /\ UNCHANGED <<employees, shifts, assignments, config, assignments0, call, result, steps>>

\* The call c after getConfig returned maxDailyHours: the configuration
\* check and the new shift's duration, up to the first read of
\* getEmployeeShifts.
afterGetConfig(c, maxDailyHours, newShiftMinutes) ==
    IF maxDailyHours.kind # "num" \/ maxDailyHours.n <= 0
    THEN Returned(c, MsgConfig)
    ELSE IF ~IsFiniteNum(newShiftMinutes) \/ newShiftMinutes <= 0
    THEN Returned(c, MsgFormat)
    ELSE [c EXCEPT !.pc = "getEmployeeShifts", !.maxDailyHours = maxDailyHours,
                   !.newShiftMinutes = newShiftMinutes]

\* The read of getConfig, then afterGetConfig.
GetConfig(p) ==
    /\ inflight[p].pc = "getConfig"
    /\ \E c \in {inflight[p]} :
          inflight' = [inflight EXCEPT ![p] =
              afterGetConfig(c, getConfig.maxDailyHours,
                             getShiftMinutes(c.shift[1].startTime, c.shift[1].endTime))]
    /\ UNCHANGED <<employees, shifts, assignments, config, assignments0, call, result, steps>>

\* The first read of getEmployeeShifts (the assignments file) and the loop
\* collecting shiftIds, up to its second read.
GetEmployeeShiftIds(p) ==
    /\ inflight[p].pc = "getEmployeeShifts"
    /\ \E c \in {inflight[p]} :
          inflight' = [inflight EXCEPT ![p] =
              [c EXCEPT !.pc = "getEmployeeShifts.shifts",
                        !.shiftIds = assignedShiftIds(c.empId)]]
    /\ UNCHANGED <<employees, shifts, assignments, config, assignments0, call, result, steps>>

\* The call c after getEmployeeShifts returned, loop being the outcome of
\* the loop over the scheduled shifts: the limit check, up to the read of
\* addAssignment.
afterGetEmployeeShifts(c, loop) ==
    IF ~loop.ok THEN Returned(c, MsgFormat)
    ELSE IF limitExceeded(loop.total, c.newShiftMinutes, maxDailyMinutesOf(c.maxDailyHours))
    THEN Returned(c, MsgLimit)
    ELSE [c EXCEPT !.pc = "addAssignment"]

\* The second read of getEmployeeShifts (the shifts file), the loop summing
\* the same-date minutes, then afterGetEmployeeShifts.
GetEmployeeShifts(p) ==
    /\ inflight[p].pc = "getEmployeeShifts.shifts"
    /\ \E c \in {inflight[p]} :
          inflight' = [inflight EXCEPT ![p] =
              afterGetEmployeeShifts(c,
                  scheduledLoop(shiftsWithIds(c.shiftIds), c.shift[1].date, 1, 0, 0))]
    /\ UNCHANGED <<employees, shifts, assignments, config, assignments0, call, result, steps>>

\* The read of addAssignment, up to its write.
AddAssignmentRead(p) ==
    /\ inflight[p].pc = "addAssignment"
    /\ \E c \in {inflight[p]} :
          inflight' = [inflight EXCEPT ![p] =
              [c EXCEPT !.pc = "addAssignment.writeFile", !.fileContent = assignments]]
    /\ UNCHANGED <<employees, shifts, assignments, config, assignments0, call, result, steps>>

\* The write of addAssignment: the array read, with the record pushed,
\* replaces the file; assignShift then returns "Ok".
AddAssignmentWrite(p) ==
    /\ inflight[p].pc = "addAssignment.writeFile"
    /\ \E c \in {inflight[p]} :
          /\ assignments' = pushAssignment(c.fileContent, c.empId, c.shiftId)
          /\ inflight' = [inflight EXCEPT ![p] = Returned(c, MsgOk)]
    /\ UNCHANGED <<employees, shifts, config, assignments0, call, result, steps>>

NextConcurrent ==
    \E p \in Calls :
        \/ CallAssignShift(p)
        \/ FindEmployee(p)
        \/ FindShift(p)
        \/ FindAssignment(p)
        \/ GetConfig(p)
        \/ GetEmployeeShiftIds(p)
        \/ GetEmployeeShifts(p)
        \/ AddAssignmentRead(p)
        \/ AddAssignmentWrite(p)

SpecConcurrent == InitConcurrent /\ [][NextConcurrent]_vars

AllReturned == \A p \in Calls : inflight[p].pc = "done"

\* No (employeeId, shiftId) pair is stored twice.
NoPairStoredTwice == NoRepeat(assignments)

\* No employee's same-date total exceeds maxDailyHours * 60.
NoDayOverCap == CapHolds(assignments)

\* Once all calls have returned, the pair of every call that returned "Ok"
\* is in the assignments store.
NoAssignmentLost ==
    AllReturned =>
        \A p \in Calls :
            inflight[p].msg = MsgOk => PairStored(inflight[p].empId, inflight[p].shiftId)

\* C11: with assignShift calls in flight together, interleaving at their
\* file reads and writes, from a store without a repeated pair and within
\* the cap: in every reachable state no pair is stored twice and no
\* employee's same-date total exceeds maxDailyHours * 60, and once all calls
\* have returned the pair of every call that returned "Ok" is stored.
C11_AsStated ==
    (NoRepeat(assignments0) /\ CapHolds(assignments0)) =>
        (NoPairStoredTwice /\ NoDayOverCap /\ NoAssignmentLost)

====
